---- MODULE Spec2Model ----
(***************************************************************************)
(* Order placement workflow of the e-commerce backend                      *)
(* (backend/app/main.py create_order, backend/app/crud.py).                *)
(*                                                                         *)
(* The database is the shared state: the committed rows of table products  *)
(* and the committed orders with their order_items.  Every request owns    *)
(* one SQLAlchemy Session (get_db), whose identity map caches the Product  *)
(* objects it has loaded until the next commit expires them.  The handler  *)
(* is an "async def" without any await, so it occupies its event loop from *)
(* its first statement to its response; handlers on other event loops      *)
(* (worker processes) and other callers of the crud functions interleave   *)
(* with it between two database statements (READ COMMITTED).               *)
(***************************************************************************)
EXTENDS Integers, Sequences, FiniteSets, TLC

\* ---------------------------------------------------------------- bounds
NumInv == 2
NumProducts == 2
MaxLines == 2
MaxQty == 2
MaxStock == 2
MaxPrice == 2
MaxExt == 1
MaxRequests == 1

\* request slots (tasks) and event loops
Invs == 1..NumInv
Loops == 1..NumInv
\* ids of the rows the products table starts with
Catalog == 1..NumProducts
\* one more id that no row ever has
ProductIds == 1..(NumProducts + 1)
Quantities == 1..MaxQty
Prices == 1..MaxPrice
Stocks == 0..MaxStock

\* OrderCreate.items: a non-empty list of (product_id, quantity) lines
Lines == [product_id : ProductIds, quantity : Quantities]
Drafts == UNION {[1..n -> Lines] : n \in 1..MaxLines}

\* absent row / object not in the identity map
NoRow == [exists |-> FALSE, price |-> 0, stock |-> 0]
EmptySession == [p \in ProductIds |-> NoRow]
NoSnap == [products |-> EmptySession, orders |-> << >>]

Statuses == {"success", "failed", "error"}

VARIABLES
    products,       \* committed rows of table products: id -> row
    orders,         \* committed orders with their order_items, in id order
    pc,             \* position of each request's handler
    order,          \* the request body (schemas.OrderCreate.items)
    idx,            \* index of the line the current loop is at
    total_amount,   \* main.py local total_amount
    product,        \* main.py local product: id of the object it refers to, 0 if none
    db_order,       \* main.py local db_order: id of the order, 0 if none
    session,        \* identity map of the request's Session: id -> loaded attributes
    new_items,      \* OrderItems added to the session, not yet committed
    response,       \* HTTP status of the request, 0 while the handler runs
    payment_status, \* span attribute payment.status set by process_payment
    running,        \* request occupying each event loop, 0 if free
    span_started,   \* create_order spans started by the request
    span_ended,     \* create_order spans ended by the request
    orders_total,   \* Counter orders_total by status label
    http_requests_total, \* Counter http_requests_total{POST /orders/} by status
    outcome_incs,   \* history: increments of orders_total made by the request
    seen_price,     \* history: product.price read by validate_products, per line
    stock_writes,   \* history: stock UPDATEs committed by the request
    stages,         \* history: stages (spans) the request entered
    interfered,     \* history: another writer committed since the request started
    snap,           \* history: the two tables when the request started
    started,        \* number of requests dispatched so far
    ext_ops,        \* number of update_product / delete_product calls so far
    config,         \* deployment and inputs: loop of each slot, drafts submitted,
                    \* outcomes of the payment draw, number of requests
    raised          \* history: the call that raised in the request (an exception
                    \* other than HTTPException), "none" if none did

dbVars == <<products, orders>>
reqVars == <<pc, order, idx, total_amount, product, db_order, session,
             new_items, response, payment_status, running>>
obsVars == <<span_started, span_ended, orders_total, http_requests_total,
             outcome_incs>>
histVars == <<seen_price, stock_writes, stages, interfered, snap, started,
              ext_ops, config>>
vars == <<dbVars, reqVars, obsVars, histVars, raised>>

\* ------------------------------------------------------------- helpers

\* Query(Product).filter(id == pid).first() in session s: the SELECT reads the
\* committed row; a row whose object is already in the identity map (and not
\* expired) is returned as that object, with the attributes loaded earlier.
get_product(s, pid) ==
    IF ~products[pid].exists THEN NoRow
    ELSE IF s[pid].exists THEN s[pid]
    ELSE products[pid]

\* The identity map references its objects weakly: an object that no local
\* variable refers to may be collected at any time.  held = ids still referred to.
Collected(s, held) ==
    {t \in [ProductIds -> {NoRow} \cup {s[p] : p \in ProductIds}] :
        \A p \in ProductIds :
            /\ p \in held => t[p] = s[p]
            /\ t[p] \in {s[p], NoRow}}

\* a commit by writer w (0 = a caller outside the order requests) is seen by
\* every other request that has started
Interfere(w) ==
    [j \in Invs |-> interfered[j] \/ (j # w /\ pc[j] # "idle")]

\* ---------------------------------------------------------------- Init
InitRequests ==
    /\ orders = << >>
    /\ pc = [i \in Invs |-> "idle"]
    /\ order = [i \in Invs |-> << >>]
    /\ idx = [i \in Invs |-> 0]
    /\ total_amount = [i \in Invs |-> 0]
    /\ product = [i \in Invs |-> 0]
    /\ db_order = [i \in Invs |-> 0]
    /\ session = [i \in Invs |-> EmptySession]
    /\ new_items = [i \in Invs |-> << >>]
    /\ response = [i \in Invs |-> 0]
    /\ payment_status = [i \in Invs |-> "unset"]
    /\ running = [l \in Loops |-> 0]
    /\ span_started = [i \in Invs |-> 0]
    /\ span_ended = [i \in Invs |-> 0]
    /\ orders_total = [s \in Statuses |-> 0]
    /\ http_requests_total = [s \in {201, 500} |-> 0]
    /\ outcome_incs = [i \in Invs |-> 0]
    /\ seen_price = [i \in Invs |-> << >>]
    /\ stock_writes = [i \in Invs |-> 0]
    /\ stages = [i \in Invs |-> {}]
    /\ interfered = [i \in Invs |-> FALSE]
    /\ snap = [i \in Invs |-> NoSnap]
    /\ started = 0
    /\ ext_ops = 0
    /\ raised = [i \in Invs |-> "none"]

\* one worker process: every request is served by the same event loop
Init ==
    /\ products \in {r \in [ProductIds -> [exists : BOOLEAN, price : 0..MaxPrice, stock : Stocks]] :
                        /\ \A p \in Catalog : r[p].exists /\ r[p].price = 1
                        /\ \A p \in ProductIds \ Catalog : r[p] = NoRow}
    /\ config = [loopOf |-> [i \in Invs |-> 1],
                 drafts |-> Drafts,
                 declined |-> BOOLEAN,
                 requests |-> MaxRequests]
    /\ InitRequests

\* several worker processes, one event loop each, and requests that all order
\* one unit of product 1, whose stock equals the number of requests; every
\* payment is accepted
InitWorkers ==
    /\ \E n \in 1..NumInv :
        /\ products = [p \in ProductIds |->
                          IF p = 1 THEN [exists |-> TRUE, price |-> 1, stock |-> n]
                          ELSE IF p \in Catalog THEN [exists |-> TRUE, price |-> 1, stock |-> 0]
                          ELSE NoRow]
        /\ config = [loopOf |-> [i \in Invs |-> i],
                     drafts |-> {<<[product_id |-> 1, quantity |-> 1]>>},
                     declined |-> {FALSE},
                     requests |-> n]
    /\ InitRequests

\* one worker process that receives as many requests as it has task slots,
\* each ordering one unit of product 1
InitOneLoop ==
    /\ \E n \in Stocks :
        products = [p \in ProductIds |->
                       IF p = 1 THEN [exists |-> TRUE, price |-> 1, stock |-> n]
                       ELSE IF p \in Catalog THEN [exists |-> TRUE, price |-> 1, stock |-> 0]
                       ELSE NoRow]
    /\ config = [loopOf |-> [i \in Invs |-> 1],
                 drafts |-> {<<[product_id |-> 1, quantity |-> 1]>>},
                 declined |-> BOOLEAN,
                 requests |-> NumInv]
    /\ InitRequests

\* ------------------------------------------------- order placement handler

\* leaving the "with tracer.start_as_current_span('create_order')" block: the
\* span ends and the handler returns or raises
End(i, code) ==
    /\ pc' = [pc EXCEPT ![i] = "done"]
    /\ response' = [response EXCEPT ![i] = code]
    /\ span_ended' = [span_ended EXCEPT ![i] = @ + 1]
    /\ session' = [session EXCEPT ![i] = EmptySession]
    /\ new_items' = [new_items EXCEPT ![i] = << >>]
    /\ product' = [product EXCEPT ![i] = 0]
    /\ idx' = [idx EXCEPT ![i] = 0]
    /\ UNCHANGED <<order, total_amount, db_order, running, span_started>>

\* variant: without "except HTTPException: raise" the HTTPException reaches
\* "except Exception" and is answered 500
RaiseHTTP_Mut(i, code) ==
    /\ End(i, 500)
    /\ orders_total' = [orders_total EXCEPT !["error"] = @ + 1]
    /\ http_requests_total' = [http_requests_total EXCEPT ![500] = @ + 1]
    /\ outcome_incs' = [outcome_incs EXCEPT ![i] = @ + 1]

\* "except HTTPException: raise": nothing is counted
RaiseHTTP(i, code) ==
    /\ End(i, code)
    /\ UNCHANGED <<orders_total, http_requests_total, outcome_incs>>

\* "except Exception": orders_total{error}, http_requests_total{500}, 500
RaiseError(i) ==
    /\ End(i, 500)
    /\ orders_total' = [orders_total EXCEPT !["error"] = @ + 1]
    /\ http_requests_total' = [http_requests_total EXCEPT ![500] = @ + 1]
    /\ outcome_incs' = [outcome_incs EXCEPT ![i] = @ + 1]

\* the request is dispatched on its event loop, which must be free, and the
\* handler opens the create_order span
Start(i) ==
    /\ pc[i] = "idle"
    /\ started < config.requests
    /\ running[config.loopOf[i]] = 0
    /\ running' = [running EXCEPT ![config.loopOf[i]] = i]
    /\ \E d \in config.drafts : order' = [order EXCEPT ![i] = d]
    /\ started' = started + 1
    /\ span_started' = [span_started EXCEPT ![i] = @ + 1]
    /\ pc' = [pc EXCEPT ![i] = "validate"]
    /\ idx' = [idx EXCEPT ![i] = 1]
    /\ stages' = [stages EXCEPT ![i] = {"validate_products"}]
    /\ snap' = [snap EXCEPT ![i] = [products |-> products, orders |-> orders]]
    /\ UNCHANGED <<dbVars, total_amount, product, db_order, session, new_items,
                   response, payment_status, span_ended, orders_total, http_requests_total,
                   outcome_incs, seen_price, stock_writes, interfered,
                   ext_ops, config, raised>>

\* variant: the check for a missing product is left out
ProductMissing_Mut(obj) == FALSE

\* "if not product"
ProductMissing(obj) == ~obj.exists

\* variant: the comparison is off by one
InsufficientStock_Mut(obj, item) == obj.stock + 1 < item.quantity

\* "if product.stock < item.quantity"
InsufficientStock(obj, item) == obj.stock < item.quantity

\* variant: the quantity is left out of the amount
LineAmount_Mut(obj, item) == obj.price

\* "product.price * item.quantity"
LineAmount(obj, item) == obj.price * item.quantity

\* variant: a line that fails is passed over while lines remain, so that the
\* failure answered is the one of the last failing line
Validate_Mut(i) ==
    /\ pc[i] = "validate"
    /\ LET item == order[i][idx[i]]
           obj == get_product(session[i], item.product_id)
           fails == ProductMissing(obj) \/ InsufficientStock(obj, item)
       IN  IF fails /\ idx[i] < Len(order[i])
           THEN /\ idx' = [idx EXCEPT ![i] = @ + 1]
                /\ UNCHANGED <<pc, order, total_amount, product, db_order,
                               session, new_items, response, payment_status,
                               running, obsVars, seen_price>>
           ELSE IF fails
           THEN /\ RaiseHTTP(i, IF ProductMissing(obj) THEN 404 ELSE 400)
                /\ UNCHANGED <<seen_price, payment_status>>
           ELSE /\ total_amount' = [total_amount EXCEPT ![i] = @ + LineAmount(obj, item)]
                /\ seen_price' = [seen_price EXCEPT ![i] = Append(@, obj.price)]
                /\ product' = [product EXCEPT ![i] = item.product_id]
                /\ \E t \in Collected([session[i] EXCEPT ![item.product_id] = obj],
                                      {item.product_id}) :
                       session' = [session EXCEPT ![i] = t]
                /\ IF idx[i] < Len(order[i])
                   THEN /\ idx' = [idx EXCEPT ![i] = @ + 1]
                        /\ pc' = pc
                   ELSE /\ idx' = idx
                        /\ pc' = [pc EXCEPT ![i] = "payment"]
                /\ UNCHANGED <<order, db_order, new_items, response,
                               payment_status, running, obsVars>>
    /\ UNCHANGED <<dbVars, stock_writes, stages, interfered, snap, started,
                   ext_ops, config, raised>>

\* one iteration of the loop of validate_products
Validate(i) ==
    /\ pc[i] = "validate"
    /\ LET item == order[i][idx[i]]
           obj == get_product(session[i], item.product_id)
       IN  IF ProductMissing(obj)
           THEN /\ RaiseHTTP(i, 404)
                /\ UNCHANGED <<seen_price, payment_status>>
           ELSE IF InsufficientStock(obj, item)
           THEN /\ RaiseHTTP(i, 400)
                /\ UNCHANGED <<seen_price, payment_status>>
           ELSE /\ total_amount' = [total_amount EXCEPT ![i] = @ + LineAmount(obj, item)]
                /\ seen_price' = [seen_price EXCEPT ![i] = Append(@, obj.price)]
                /\ product' = [product EXCEPT ![i] = item.product_id]
                /\ \E t \in Collected([session[i] EXCEPT ![item.product_id] = obj],
                                      {item.product_id}) :
                       session' = [session EXCEPT ![i] = t]
                /\ IF idx[i] < Len(order[i])
                   THEN /\ idx' = [idx EXCEPT ![i] = @ + 1]
                        /\ pc' = pc
                   ELSE /\ idx' = idx
                        /\ pc' = [pc EXCEPT ![i] = "payment"]
                /\ UNCHANGED <<order, db_order, new_items, response,
                               payment_status, running, obsVars>>
    /\ UNCHANGED <<dbVars, stock_writes, stages, interfered, snap, started,
                   ext_ops, config, raised>>

\* variant: the decline is recorded and counted but 402 is not raised
Declined_Mut(i) ==
    /\ payment_status' = [payment_status EXCEPT ![i] = "failed"]
    /\ orders_total' = [orders_total EXCEPT !["failed"] = @ + 1]
    /\ outcome_incs' = [outcome_incs EXCEPT ![i] = @ + 1]
    /\ pc' = [pc EXCEPT ![i] = "save_order"]
    /\ UNCHANGED <<order, idx, total_amount, product, db_order, session,
                   new_items, response, running, span_started, span_ended,
                   http_requests_total>>

\* "if random.random() < 0.05": the charge is declined, counted and 402 raised
Declined(i) ==
    /\ payment_status' = [payment_status EXCEPT ![i] = "failed"]
    /\ orders_total' = [orders_total EXCEPT !["failed"] = @ + 1]
    /\ outcome_incs' = [outcome_incs EXCEPT ![i] = @ + 1]
    /\ End(i, 402)
    /\ UNCHANGED http_requests_total

\* the charge is accepted and the handler goes on to save_order
Accepted(i) ==
    /\ payment_status' = [payment_status EXCEPT ![i] = "success"]
    /\ pc' = [pc EXCEPT ![i] = "save_order"]
    /\ UNCHANGED <<order, idx, total_amount, product, db_order, session,
                   new_items, response, running, obsVars>>

\* process_payment: the sleep, then the draw
Payment(i) ==
    /\ pc[i] = "payment"
    /\ stages' = [stages EXCEPT ![i] = @ \cup {"process_payment"}]
    /\ \E declined \in config.declined :
        IF declined THEN Declined(i) ELSE Accepted(i)
    /\ UNCHANGED <<dbVars, seen_price, stock_writes, interfered, snap, started,
                   ext_ops, config, raised>>

\* crud.create_order: db.add(db_order); db.flush()
SaveOrder(i) ==
    /\ pc[i] = "save_order"
    /\ stages' = [stages EXCEPT ![i] = @ \cup {"save_order"}]
    /\ pc' = [pc EXCEPT ![i] = "save_items"]
    /\ idx' = [idx EXCEPT ![i] = 1]
    /\ UNCHANGED <<dbVars, order, total_amount, product, db_order, session,
                   new_items, response, payment_status, running, obsVars,
                   seen_price, stock_writes, interfered, snap, started,
                   ext_ops, config, raised>>

\* crud.create_order: one iteration of "for item in order.items"
SaveItem(i) ==
    /\ pc[i] = "save_items"
    /\ LET item == order[i][idx[i]]
           obj == get_product(session[i], item.product_id)
       IN  IF obj.exists
           THEN /\ new_items' = [new_items EXCEPT ![i] = Append(@,
                                   [line |-> idx[i],
                                    product_id |-> item.product_id,
                                    quantity |-> item.quantity,
                                    price_at_purchase |-> obj.price])]
                /\ \E t \in Collected([session[i] EXCEPT ![item.product_id] = obj],
                                      {item.product_id, product[i]}) :
                       session' = [session EXCEPT ![i] = t]
           ELSE UNCHANGED <<new_items, session>>
    /\ IF idx[i] < Len(order[i])
       THEN /\ idx' = [idx EXCEPT ![i] = @ + 1]
            /\ pc' = pc
       ELSE /\ idx' = idx
            /\ pc' = [pc EXCEPT ![i] = "commit"]
    /\ UNCHANGED <<dbVars, order, total_amount, product, db_order, response,
                   payment_status, running, obsVars, histVars, raised>>

\* crud.create_order: db.commit() flushes the INSERTs of the order_items (the
\* foreign key to products is checked) and commits, or raises and rolls back
Commit(i) ==
    /\ pc[i] = "commit"
    /\ IF \A k \in 1..Len(new_items[i]) : products[new_items[i][k].product_id].exists
       THEN /\ orders' = Append(orders, [total_amount |-> total_amount[i],
                                         status |-> "pending",
                                         items |-> new_items[i],
                                         lines |-> Len(order[i])])
            /\ db_order' = [db_order EXCEPT ![i] = Len(orders) + 1]
            /\ interfered' = Interfere(i)
            /\ session' = [session EXCEPT ![i] = EmptySession]
            /\ new_items' = [new_items EXCEPT ![i] = << >>]
            /\ pc' = [pc EXCEPT ![i] = "inventory"]
            /\ idx' = [idx EXCEPT ![i] = 1]
            /\ UNCHANGED <<order, total_amount, product, response,
                           payment_status, running, obsVars, raised>>
       ELSE /\ RaiseError(i)
            /\ raised' = [raised EXCEPT ![i] = "database"]
            /\ UNCHANGED <<orders, interfered, payment_status>>
    /\ UNCHANGED <<products, seen_price, stock_writes, stages, snap, started,
                   ext_ops, config>>

\* variant: the loop of update_inventory ends after its first adjustment
NextLine_Mut(i) ==
    /\ idx' = idx
    /\ pc' = [pc EXCEPT ![i] = "respond"]

\* next line of update_inventory, or the end of the loop
NextLine(i) ==
    IF idx[i] < Len(order[i])
    THEN /\ idx' = [idx EXCEPT ![i] = @ + 1]
         /\ pc' = [pc EXCEPT ![i] = "inventory"]
    ELSE /\ idx' = idx
         /\ pc' = [pc EXCEPT ![i] = "respond"]

\* crud.update_product_stock: the query and "db_product.stock += quantity_change"
InventoryRead(i) ==
    /\ pc[i] = "inventory"
    /\ stages' = [stages EXCEPT ![i] = @ \cup {"update_inventory"}]
    /\ LET item == order[i][idx[i]]
           obj == get_product(session[i], item.product_id)
       IN  IF obj.exists
           THEN /\ session' = [session EXCEPT ![i][item.product_id] =
                                 [obj EXCEPT !.stock = @ - item.quantity]]
                /\ pc' = [pc EXCEPT ![i] = "inventory_commit"]
                /\ idx' = idx
           ELSE /\ NextLine(i)
                /\ session' = session
    /\ UNCHANGED <<dbVars, order, total_amount, product, db_order, new_items,
                   response, payment_status, running, obsVars, seen_price,
                   stock_writes, interfered, snap, started, ext_ops, config,
                   raised>>

\* crud.update_product_stock: db.commit() (UPDATE products SET stock = <value>
\* WHERE id = <id>; COMMIT) and db.refresh(db_product)
InventoryCommit(i) ==
    /\ pc[i] = "inventory_commit"
    /\ LET pid == order[i][idx[i]].product_id
       IN  IF products[pid].exists
           THEN /\ products' = [products EXCEPT ![pid].stock = session[i][pid].stock]
                /\ stock_writes' = [stock_writes EXCEPT ![i] = @ + 1]
                /\ interfered' = Interfere(i)
                /\ session' = [session EXCEPT ![i] = EmptySession]
                /\ NextLine(i)
                /\ UNCHANGED <<order, total_amount, product, db_order,
                               new_items, response, payment_status, running,
                               obsVars, raised>>
           ELSE /\ RaiseError(i)
                /\ raised' = [raised EXCEPT ![i] = "database"]
                /\ UNCHANGED <<products, stock_writes, interfered,
                               payment_status>>
    /\ UNCHANGED <<orders, seen_price, stages, snap, started, ext_ops, config>>

\* the counters of the success path and "return db_order"
Respond(i) ==
    /\ pc[i] = "respond"
    /\ orders_total' = [orders_total EXCEPT !["success"] = @ + 1]
    /\ http_requests_total' = [http_requests_total EXCEPT ![201] = @ + 1]
    /\ outcome_incs' = [outcome_incs EXCEPT ![i] = @ + 1]
    /\ End(i, 201)
    /\ UNCHANGED <<dbVars, histVars, payment_status, raised>>

\* a database statement of the handler raises (connection lost, timeout):
\* the open transaction is rolled back and "except Exception" answers 500
DbStatements == {"validate", "save_order", "save_items", "commit",
                 "inventory", "inventory_commit"}

StorageFault(i) ==
    /\ pc[i] \in DbStatements
    /\ RaiseError(i)
    /\ raised' = [raised EXCEPT ![i] = "database"]
    /\ UNCHANGED <<dbVars, histVars, payment_status>>

\* the handler is at a span or counter call inside "try": add_event before the
\* 404 or 400, the attributes and events of process_payment, order.id after
\* crud.create_order, the counters and the event of the success path
SinkCalls(i) ==
    \/ /\ pc[i] = "validate"
       /\ LET item == order[i][idx[i]]
              obj == get_product(session[i], item.product_id)
          IN  ProductMissing(obj) \/ InsufficientStock(obj, item)
    \/ pc[i] = "payment"
    \/ pc[i] = "inventory" /\ "update_inventory" \notin stages[i]
    \/ pc[i] = "respond"

\* a span or counter call raises: inside "try" it is caught by "except
\* Exception" and answered 500; the two set_attribute calls before "try" raise
\* out of the handler, which the server answers 500
InstrumentationFault(i) ==
    /\ \/ /\ SinkCalls(i)
          /\ RaiseError(i)
       \/ /\ pc[i] = "validate"
          /\ idx[i] = 1
          /\ End(i, 500)
          /\ UNCHANGED <<orders_total, http_requests_total, outcome_incs>>
    /\ raised' = [raised EXCEPT ![i] = "instrumentation"]
    /\ UNCHANGED <<dbVars, histVars, payment_status>>

\* the response is sent, get_db closes the session ("finally: db.close()"),
\* the task ends and its event loop takes the next request
Close(i) ==
    /\ pc[i] = "done"
    /\ running' = [running EXCEPT ![config.loopOf[i]] = 0]
    /\ pc' = [pc EXCEPT ![i] = "idle"]
    /\ order' = [order EXCEPT ![i] = << >>]
    /\ total_amount' = [total_amount EXCEPT ![i] = 0]
    /\ db_order' = [db_order EXCEPT ![i] = 0]
    /\ response' = [response EXCEPT ![i] = 0]
    /\ payment_status' = [payment_status EXCEPT ![i] = "unset"]
    /\ span_started' = [span_started EXCEPT ![i] = 0]
    /\ span_ended' = [span_ended EXCEPT ![i] = 0]
    /\ outcome_incs' = [outcome_incs EXCEPT ![i] = 0]
    /\ seen_price' = [seen_price EXCEPT ![i] = << >>]
    /\ stock_writes' = [stock_writes EXCEPT ![i] = 0]
    /\ stages' = [stages EXCEPT ![i] = {}]
    /\ interfered' = [interfered EXCEPT ![i] = FALSE]
    /\ snap' = [snap EXCEPT ![i] = NoSnap]
    /\ raised' = [raised EXCEPT ![i] = "none"]
    /\ UNCHANGED <<dbVars, idx, product, session, new_items, orders_total,
                   http_requests_total, started, ext_ops, config>>

\* ------------------------------------------- other callers of crud.py

\* crud.update_product on an existing product, in a session of its own, with
\* update_data = {"price": price}
update_product(pid, price) ==
    /\ ext_ops < MaxExt
    /\ products[pid].exists
    /\ products[pid].price # price
    /\ products' = [products EXCEPT ![pid].price = price]
    /\ interfered' = Interfere(0)
    /\ ext_ops' = ext_ops + 1
    /\ UNCHANGED <<orders, reqVars, obsVars, seen_price, stock_writes, stages,
                   snap, started, config, raised>>

\* some committed order_item references the product
Referenced(pid) ==
    \E o \in 1..Len(orders) : \E k \in 1..Len(orders[o].items) :
        orders[o].items[k].product_id = pid

\* crud.delete_product on an existing product; the DELETE is refused while an
\* order_item references the row (order_items.product_id, not nullable)
delete_product(pid) ==
    /\ ext_ops < MaxExt
    /\ products[pid].exists
    /\ ~Referenced(pid)
    /\ products' = [products EXCEPT ![pid] = NoRow]
    /\ interfered' = Interfere(0)
    /\ ext_ops' = ext_ops + 1
    /\ UNCHANGED <<orders, reqVars, obsVars, seen_price, stock_writes, stages,
                   snap, started, config, raised>>

\* ------------------------------------------------------ specifications
Handler(i) ==
    \/ Start(i)
    \/ Validate(i)
    \/ Payment(i)
    \/ SaveOrder(i)
    \/ SaveItem(i)
    \/ Commit(i)
    \/ InventoryRead(i)
    \/ InventoryCommit(i)
    \/ Respond(i)
    \/ Close(i)

Next ==
    \/ \E i \in Invs : Handler(i)
    \/ \E i \in Invs : StorageFault(i)
    \/ \E pid \in ProductIds, price \in Prices : update_product(pid, price)
    \/ \E pid \in ProductIds : delete_product(pid)

Spec == Init /\ [][Next]_vars

NextWorkers == \E i \in Invs : Handler(i)

SpecWorkers == InitWorkers /\ [][NextWorkers]_vars

SpecOneLoop == InitOneLoop /\ [][NextWorkers]_vars

\* Next with span and counter calls that may raise
NextSink ==
    \/ Next
    \/ \E i \in Invs : InstrumentationFault(i)

SpecSink == Init /\ [][NextSink]_vars

\* Next without database faults
NextFair ==
    \/ \E i \in Invs : Handler(i)
    \/ \E pid \in ProductIds, price \in Prices : update_product(pid, price)
    \/ \E pid \in ProductIds : delete_product(pid)

\* the event loop runs a handler that has started up to its response: the
\* handler awaits nothing, cannot be cancelled and its payment delay is bounded
SpecFair == Init /\ [][NextFair]_vars /\ \A i \in Invs : WF_vars(Handler(i))

\* ================================================================ claims

Done(i) == pc[i] = "done"

\* the line cannot be ordered from catalog cat: product absent or stock short
Offending(line, cat) ==
    \/ ~cat[line.product_id].exists
    \/ cat[line.product_id].stock < line.quantity

\* index of the first line of draft d that cannot be ordered, 0 if none
FirstOffending(d, cat) ==
    IF \E k \in 1..Len(d) : Offending(d[k], cat)
    THEN CHOOSE k \in 1..Len(d) :
            /\ Offending(d[k], cat)
            /\ \A j \in 1..(k - 1) : ~Offending(d[j], cat)
    ELSE 0

\* a line of the draft names an id that no product ever has
HasMissingLine(d) == \E k \in 1..Len(d) : d[k].product_id \notin Catalog

\* a line of the draft asks for more than the stock of its product in cat
HasShortLine(d, cat) ==
    \E k \in 1..Len(d) : /\ cat[d[k].product_id].exists
                         /\ cat[d[k].product_id].stock < d[k].quantity

RECURSIVE Total(_, _)
Total(d, cat) ==
    IF d = << >> THEN 0
    ELSE cat[d[1].product_id].price * d[1].quantity + Total(Tail(d), cat)

RECURSIVE Ordered(_, _)
Ordered(d, p) ==
    IF d = << >> THEN 0
    ELSE (IF d[1].product_id = p THEN d[1].quantity ELSE 0) + Ordered(Tail(d), p)

\* the request has written nothing and nobody else has: the tables are as
\* they were when it started
Untouched(i) == products = snap[i].products /\ orders = snap[i].orders

\* C1: no product's stock is ever negative, whatever order placements ran.
C1_StockNeverNegative ==
    \A p \in ProductIds : products[p].exists => products[p].stock >= 0

\* C2: a finished placement either answered 201 with its order persisted and
\* one stock decrement per line, or answered a failure with no order persisted
\* and no stock changed by it.
C2_AllOrNothing ==
    \A i \in Invs : Done(i) =>
        \/ /\ response[i] = 201
           /\ db_order[i] # 0
           /\ Len(orders[db_order[i]].items) = Len(order[i])
           /\ stock_writes[i] = Len(order[i])
        \/ /\ response[i] # 201
           /\ db_order[i] = 0
           /\ stock_writes[i] = 0

\* C3: every persisted order line carries as price_at_purchase the price that
\* the same request read for that line during validation.
C3_PriceSnapshot ==
    \A i \in Invs : db_order[i] # 0 =>
        \A k \in 1..Len(orders[db_order[i]].items) :
            LET it == orders[db_order[i]].items[k]
            IN  it.price_at_purchase = seen_price[i][it.line]

\* C4: N requests of one unit against a stock of N, all payments accepted:
\* the stock is never negative and, once all have finished, there are N
\* successes and the stock is 0.
C4_NSuccessesStockZero ==
    /\ products[1].stock >= 0
    /\ (started = config.requests /\ \A i \in Invs : pc[i] = "idle") =>
            /\ orders_total["success"] = config.requests
            /\ products[1].stock = 0

\* C5 (as stated): a draft with a line naming a nonexistent product is
\* answered 404 and changes no stock (no database statement raising).
C5_MissingLineGives404 ==
    \A i \in Invs : (Done(i) /\ HasMissingLine(order[i]) /\ response[i] # 500) =>
        /\ response[i] = 404
        /\ stock_writes[i] = 0

\* C5 (amended): a draft with a line naming a nonexistent product stops in
\* validation at the first line, in draft order, that cannot be ordered: 404 if
\* that line's product is missing, 400 if its stock is short (500 if a read
\* raises); the request changes no stock and persists no order.
C5_MissingLineFailsValidation ==
    \A i \in Invs : (Done(i) /\ HasMissingLine(order[i])) =>
        /\ response[i] \in {404, 400, 500}
        /\ stages[i] = {"validate_products"}
        /\ stock_writes[i] = 0
        /\ db_order[i] = 0
        /\ ~interfered[i] => Untouched(i)
        /\ response[i] # 500 =>
            LET k == Len(seen_price[i]) + 1
            IN  /\ k <= Len(order[i])
                /\ \A j \in 1..(k - 1) : order[i][j].product_id \in Catalog
                /\ order[i][k].product_id \notin Catalog => response[i] = 404
                /\ response[i] = 400 => order[i][k].product_id \in Catalog
                /\ ~interfered[i] =>
                    /\ k = FirstOffending(order[i], snap[i].products)
                    /\ response[i] = IF snap[i].products[order[i][k].product_id].exists
                                     THEN 400 ELSE 404

\* a two-line draft whose second line names a nonexistent product was
\* answered 404 after its first line passed
C5_Witness ==
    \E i \in Invs : /\ Done(i)
                    /\ Len(order[i]) = 2
                    /\ order[i][2].product_id \notin Catalog
                    /\ Len(seen_price[i]) = 1
                    /\ response[i] = 404

\* C6 (as stated): a draft with a line asking for more than the stock of its
\* product is answered 400 and changes no stock (no concurrent writer, no
\* database statement raising).
C6_ShortLineGives400 ==
    \A i \in Invs :
        (/\ Done(i)
         /\ ~interfered[i]
         /\ response[i] # 500
         /\ HasShortLine(order[i], snap[i].products)) =>
            /\ response[i] = 400
            /\ Untouched(i)

\* C6 (amended): without a concurrent writer or a raising read, a draft with a
\* line asking for more than the stock of its product stops in validation at
\* the first line, in draft order, that cannot be ordered: 400 if that line's
\* stock is short, 404 if its product is missing; no stock changes and no
\* order is persisted.
C6_ShortLineFailsValidation ==
    \A i \in Invs :
        (/\ Done(i)
         /\ ~interfered[i]
         /\ response[i] # 500
         /\ HasShortLine(order[i], snap[i].products)) =>
            LET k == FirstOffending(order[i], snap[i].products)
            IN  /\ Len(seen_price[i]) + 1 = k
                /\ response[i] = IF snap[i].products[order[i][k].product_id].exists
                                 THEN 400 ELSE 404
                /\ stages[i] = {"validate_products"}
                /\ stock_writes[i] = 0
                /\ db_order[i] = 0
                /\ Untouched(i)

\* a two-line draft whose first line passed and whose second line asks for
\* more than the stock was answered 400
C6_Witness ==
    \E i \in Invs : /\ Done(i)
                    /\ ~interfered[i]
                    /\ Len(order[i]) = 2
                    /\ Len(seen_price[i]) = 1
                    /\ snap[i].products[order[i][2].product_id].exists
                    /\ snap[i].products[order[i][2].product_id].stock > 0
                    /\ response[i] = 400

\* C7: a request whose charge was declined answers 402, entered neither
\* save_order nor update_inventory, persisted no order and changed no stock;
\* without another writer the tables are as they were when it started.
C7_DeclineHasNoEffect ==
    \A i \in Invs : (Done(i) /\ payment_status[i] = "failed") =>
        /\ response[i] = 402
        /\ stages[i] = {"validate_products", "process_payment"}
        /\ db_order[i] = 0
        /\ stock_writes[i] = 0
        /\ ~interfered[i] => Untouched(i)

\* a declined request has finished, with stock left to sell
C7_Witness ==
    \E i \in Invs : /\ Done(i)
                    /\ payment_status[i] = "failed"
                    /\ response[i] = 402
                    /\ ~interfered[i]
                    /\ \E p \in Catalog : products[p].exists /\ products[p].stock > 0

\* C8: without a concurrent writer (and no database statement raising), a
\* draft whose lines can all be ordered and whose charge is accepted is
\* answered 201; its order has total_amount = sum of price * quantity, one
\* order line per draft line with the product's price, and every product's
\* stock is its former stock minus the quantity ordered of it.
C8_SuccessfulPlacement ==
    \A i \in Invs :
        (/\ Done(i)
         /\ ~interfered[i]
         /\ FirstOffending(order[i], snap[i].products) = 0
         /\ payment_status[i] = "success"
         /\ response[i] # 500) =>
            /\ response[i] = 201
            /\ db_order[i] = Len(snap[i].orders) + 1
            /\ Len(orders) = db_order[i]
            /\ LET o == orders[db_order[i]]
               IN  /\ o.total_amount = Total(order[i], snap[i].products)
                   /\ Len(o.items) = Len(order[i])
                   /\ \A k \in 1..Len(o.items) :
                        /\ o.items[k].product_id = order[i][k].product_id
                        /\ o.items[k].quantity = order[i][k].quantity
                        /\ o.items[k].price_at_purchase =
                               snap[i].products[order[i][k].product_id].price
            /\ \A p \in ProductIds :
                   products[p] = [snap[i].products[p] EXCEPT
                                     !.stock = @ - Ordered(order[i], p)]

\* stock 2, price 2, quantity 2: total 4, price_at_purchase 2, stock 0
C8_Witness ==
    \E i \in Invs :
        /\ Done(i)
        /\ ~interfered[i]
        /\ response[i] = 201
        /\ Len(order[i]) = 1
        /\ order[i][1].quantity = 2
        /\ snap[i].products[order[i][1].product_id].price = 2
        /\ snap[i].products[order[i][1].product_id].stock = 2
        /\ orders[db_order[i]].total_amount = 4
        /\ products[order[i][1].product_id].stock = 0

\* C9: every committed order has one order line for every line of its draft.
C9_NoLineMissing ==
    \A o \in 1..Len(orders) : Len(orders[o].items) = orders[o].lines

\* C10: a finished placement has started and ended exactly one create_order
\* span and incremented the outcome counter orders_total exactly once.
C10_OneSpanOneCount ==
    \A i \in Invs : Done(i) =>
        /\ span_started[i] = 1
        /\ span_ended[i] = 1
        /\ outcome_incs[i] = 1

\* C11: while a request is in its payment stage, another request waiting on
\* the same event loop can take its first step (so that both can be in the
\* payment stage together).
C11_PaymentDoesNotBlockLoop ==
    \A i, j \in Invs :
        (/\ i # j
         /\ config.loopOf[i] = config.loopOf[j]
         /\ pc[i] = "payment"
         /\ pc[j] = "idle"
         /\ started < config.requests) => ENABLED Start(j)

\* C12: a span or counter call that raises does not change the result of order
\* placement: a request in which only such a call raised (no database
\* statement did) is not answered 500, and if its order is persisted it is
\* answered 201 with the stock decrement of every persisted line applied.
C12_SinkFailureHarmless ==
    \A i \in Invs :
        (Done(i) /\ raised[i] = "instrumentation") =>
            /\ response[i] # 500
            /\ db_order[i] # 0 =>
                  /\ response[i] = 201
                  /\ stock_writes[i] = Len(orders[db_order[i]].items)

\* the line at which validate_products stopped: the one after the lines passed
StoppedAt(i) == order[i][Len(seen_price[i]) + 1]

\* C13: the status of a finished request follows its outcome: 500 exactly when
\* some call raised an exception other than HTTPException (whatever the
\* stage), 402 exactly when the payment was declined, 201 exactly when the
\* payment was accepted and nothing raised, and then the order is persisted,
\* 404 or 400 exactly when validation stopped the request: 404 if the product
\* of the line it stopped at is absent, 400 if its stock is short.  A 404, 400
\* or 402 is never turned into 500.
C13_StatusOfOutcome ==
    \A i \in Invs :
        Done(i) =>
            /\ response[i] \in {201, 400, 402, 404, 500}
            /\ response[i] = 500 <=> raised[i] # "none"
            /\ response[i] = 402 <=>
                  (raised[i] = "none" /\ payment_status[i] = "failed")
            /\ response[i] = 201 <=>
                  (raised[i] = "none" /\ payment_status[i] = "success")
            /\ response[i] = 201 => db_order[i] # 0
            /\ response[i] \in {400, 404} <=>
                  (raised[i] = "none" /\ payment_status[i] = "unset")
            /\ (response[i] \in {400, 404} /\ ~interfered[i]) =>
                  /\ stages[i] = {"validate_products"}
                  /\ response[i] = 404 <=> ~products[StoppedAt(i).product_id].exists
                  /\ response[i] = 400 <=>
                        /\ products[StoppedAt(i).product_id].exists
                        /\ products[StoppedAt(i).product_id].stock
                              < StoppedAt(i).quantity

\* a database statement raised in update_inventory, after the order was
\* persisted, and the request is answered 500
C13_Witness ==
    \E i \in Invs :
        /\ Done(i)
        /\ raised[i] = "database"
        /\ "update_inventory" \in stages[i]
        /\ db_order[i] # 0
        /\ response[i] = 500

\* quantity of product p over the order_items its
RECURSIVE ItemsQuantity(_, _)
ItemsQuantity(its, p) ==
    IF its = << >> THEN 0
    ELSE (IF its[1].product_id = p THEN its[1].quantity ELSE 0)
         + ItemsQuantity(Tail(its), p)

\* quantity of product p over all lines of the persisted orders os
RECURSIVE Sold(_, _)
Sold(os, p) ==
    IF os = << >> THEN 0
    ELSE ItemsQuantity(os[1].items, p) + Sold(Tail(os), p)

\* stock a product starts with where the requests run on several workers:
\* product 1 has one unit per request, the other products none
WorkersInitialStock(p) == IF p = 1 THEN config.requests ELSE 0

\* C14: stock adjustments of concurrent requests are not lost: once every
\* request has finished, the stock of each product is its initial stock minus
\* the quantity of that product over all lines of the orders placed.
C14_NoLostUpdate ==
    (started = config.requests /\ \A i \in Invs : pc[i] = "idle") =>
        \A p \in Catalog :
            products[p].stock = WorkersInitialStock(p) - Sold(orders, p)

C16_FailFastInDraftOrder ==
    \A i \in Invs :
        /\ pc[i] = "validate" =>
              /\ idx[i] = Len(seen_price[i]) + 1
              /\ idx[i] <= Len(order[i])
        /\ (Done(i) /\ response[i] \in {400, 404}) =>
              /\ Len(seen_price[i]) < Len(order[i])
              /\ stages[i] = {"validate_products"}
              /\ payment_status[i] = "unset"
              /\ ~interfered[i] =>
                    /\ Len(seen_price[i]) + 1
                          = FirstOffending(order[i], snap[i].products)
                    /\ response[i] =
                          IF snap[i].products[StoppedAt(i).product_id].exists
                          THEN 400 ELSE 404
                    /\ total_amount[i] =
                          Total(SubSeq(order[i], 1, Len(seen_price[i])),
                                snap[i].products)
        /\ (/\ pc[i] \notin {"idle", "validate"}
            /\ ~interfered[i]
            /\ raised[i] = "none"
            /\ FirstOffending(order[i], snap[i].products) # 0) =>
              /\ Done(i)
              /\ response[i] \in {400, 404}

\* a draft of two lines, the first naming an absent product and the second
\* asking more than the stock: the request is answered 404 with no line passed
C16_Witness ==
    \E i \in Invs :
        /\ Done(i)
        /\ ~interfered[i]
        /\ Len(order[i]) = 2
        /\ ~snap[i].products[order[i][1].product_id].exists
        /\ snap[i].products[order[i][2].product_id].exists
        /\ snap[i].products[order[i][2].product_id].stock < order[i][2].quantity
        /\ response[i] = 404
        /\ seen_price[i] = << >>

====
